---- MODULE Spec2Model ----
(***************************************************************************)
(* Model of the RTSP session manager (server/rtsp-service.ts, class        *)
(* RTSPService): one ffmpeg subprocess per session, detection of the fMP4  *)
(* initialization segment in its stdout, and fan-out of the bytes to the   *)
(* PassThrough queues of the attached clients.                             *)
(*                                                                         *)
(* Node runs every handler to completion on one thread, so each handler    *)
(* (startStream, the 'spawn' / 'error' / 'close' / stdout 'data' handlers, *)
(* the init timer callback, getStreamData, stopStream, a queue's cleanup)  *)
(* is one atomic action.  On top of it, the start, stop and watch         *)
(* handlers of the server (server/index.ts) with its activeStreams map.    *)
(*                                                                         *)
(* Spec follows one session record with its stdout data; SpecReg several   *)
(* records with the calls made to the service recorded; SpecDet the attach *)
(* and detach accounting with several queues; SpecApp the server handlers. *)
(***************************************************************************)
EXTENDS Integers, Sequences, FiniteSets, TLC

(* ------------------------------ bounds --------------------------------- *)
\* session records ever created by startStream
MaxRecs == 2
\* client queues ever created by getStreamData
MaxClients == 1
\* stdout chunks delivered, over all subprocesses
MaxChunks == 3
\* the same, where several session records run side by side
MaxRegChunks == 1
\* client queues ever created, where the attach / detach accounting is
\* followed without stdout data (at least MaxClients)
MaxDetClients == 2

\* session ids sent back by POST /api/stream/start
MaxPosts == 3

\* the values Date.now() takes, in milliseconds
Times == {1, 2}

\* `stream-${Date.now()}`: the fixed prefix followed by the digits of the
\* clock value, as a sequence of characters
SessionId(t) == <<"s", ToString(t)>>

\* session identifiers handed to startStream / getStreamData / stopStream
SIDs == {SessionId(t) : t \in Times}

\* socket.id of the connected sockets: characters of the URL-safe base64
\* alphabet, which has "-" and "_" (scaled from 20 characters to 3)
Socks == { <<"a", "-", "b">>, <<"c", "d", "e">> }

\* the :sessionId a caller may put in POST /api/stream/stop/:sessionId: the
\* identifiers of sessions, and one that names no session
StopParams == SIDs \cup { SessionId(1) \o <<"-", "a">> }
Recs == 1..MaxRecs
Clients == 1..MaxDetClients

\* MAX_PREINIT_BYTES, scaled from 5 MB to 5 bytes so that chunks of a few
\* bytes reach it, equal it and cross it.
MAX_PREINIT_BYTES == 5

\* the byte ranges a stdout 'data' event may carry: the first half of "moof"
\* and its second half followed by one more byte.  Alone, and in every
\* order but "mo" then "ofx", they are marker-free; two of them stay within
\* MAX_PREINIT_BYTES or cross it, three always cross it.
ChunkValues == { <<"m","o">>, <<"o","f","x">> }

\* the structural markers scanned for
Markers == { <<"f","t","y","p">>, <<"m","o","o","v">>, <<"m","o","o","f">> }

(* ------------------------------ state ---------------------------------- *)
VARIABLES
  sessions,   \* RTSPService.sessions: session id -> record index, 0 = absent
  session,    \* the StreamSession objects (held by the handlers' closures)
  proc,       \* per record: the subprocess, the timer and the closure locals
  nrec,       \* number of StreamSession objects created so far
  cl,         \* the PassThrough queues created by getStreamData
  ncli,       \* number of queues created so far
  last,       \* history: the last call made to the service and its answer
  now,        \* the value Date.now() returns
  handed,     \* history: the session ids POST /api/stream/start sent back
  activeStreams,  \* index.ts activeStreams: stream key -> queue
  streamKey,  \* per queue: streamKey in the closure of its watch handler
  emitted,    \* per queue: the events its watch handler sent to the socket
  listeners,  \* per socket: its 'stream:unwatch' listeners, by queue
  gone,       \* the sockets that have disconnected
  idle,       \* the pending maybeStopSessionIfIdle timers, in firing order
  detached,   \* history: the queues destroyed by an unwatch or a disconnect
  player      \* VideoPlayer.tsx: the refs of the mounted player component

vars == <<sessions, session, proc, nrec, cl, ncli>>
sockvars == <<emitted, listeners, gone, idle, detached>>
appvars == <<now, handed, activeStreams, streamKey, sockvars, player>>
apivars == <<last, appvars>>
allvars == <<vars, apivars>>

\* an optional Buffer: Null, or Some(bytes)
Null == <<>>
Some(b) == <<b>>
Bytes(o) == o[1]

(* --------------------------- pure helpers ------------------------------ *)
\* Buffer.concat(list)
RECURSIVE Concat(_)
Concat(list) ==
  IF list = <<>> THEN <<>> ELSE Head(list) \o Concat(Tail(list))

\* buf.indexOf(pat) !== -1
Includes(buf, pat) ==
  \E i \in 1..(Len(buf) - Len(pat) + 1) :
    SubSeq(buf, i, i + Len(pat) - 1) = pat

\* hasFtyp || hasMoov || hasMoof
HasMarker(combined) == \E m \in Markers : Includes(combined, m)

\* (faulty variant of SizeCapExceeded: >= in place of >)
SizeCapExceeded_ge(size) == size >= MAX_PREINIT_BYTES

\* session.preInitSize > MAX_PREINIT_BYTES
SizeCapExceeded(size) == size > MAX_PREINIT_BYTES

\* (faulty variant of NoInit: the guard is always taken)
NoInit_always(s) == TRUE

\* !session.initBuffer (a Buffer object is truthy whatever its length)
NoInit(s) == s.initBuffer = Null

\* (faulty variant of DecCount: the count is left as it is)
DecCount_keep(n) == n

\* Math.max(0, n - 1)
DecCount(n) == IF n - 1 > 0 THEN n - 1 ELSE 0

RECURSIVE SumCounts(_)
SumCounts(r) == IF r = 0 THEN 0 ELSE proc[r].stdoutChunkCount + SumCounts(r - 1)
\* chunks delivered so far, over all subprocesses
TotalChunks == SumCounts(nrec)

(* ------------------------- records and queues -------------------------- *)
\* the StreamSession literal of startStream
NewSession(sid) ==
  [ id |-> sid, isActive |-> FALSE, clientCount |-> 0, clients |-> {},
    preInitChunks |-> <<>>, preInitSize |-> 0, initBuffer |-> Null,
    initTimer |-> FALSE ]

\* the subprocess just returned by spawn(), with the closure's locals.
\* History kept for the properties: out is what stdout delivered so far;
\* resolvedBy / resAt are the branch that set initBuffer and the value of
\* stdoutChunkCount when it did; timerFired / firedAt the same for the run
\* of the timer callback; warned the console.warn messages of the session's
\* handlers, by kind.  promise is the state of the promise startStream
\* returned.
NewProc ==
  [ st |-> "spawning", killed |-> FALSE, timerArmed |-> FALSE,
    promise |-> "pending",
    stdoutChunkCount |-> 0, out |-> <<>>,
    resolvedBy |-> "none", resAt |-> 0,
    timerFired |-> FALSE, firedAt |-> 0, warned |-> {} ]

\* console.warn(`Pre-init buffer exceeded ... using what we have as init`)
WarnSizeCap == "size-cap"
\* console.warn(`Init not found within ...; promoting buffered data as init`)
WarnTimeout == "timeout"
\* console.warn(`Init not found within ... and no preinit data ...`)
WarnNoData == "no-data"

NoSession == NewSession(<<>>)
NoProc == [NewProc EXCEPT !.st = "none"]

\* new PassThrough(); at and late record the attach point
NewClient(r) ==
  [ sess |-> r, st |-> "open", q |-> <<>>, pend |-> <<>>,
    at |-> proc[r].stdoutChunkCount, late |-> session[r].initBuffer # Null ]

NoClient == [ sess |-> 0, st |-> "none", q |-> <<>>, pend |-> <<>>,
              at |-> 0, late |-> FALSE ]

InitWrite(buf) == [ kind |-> "init", data |-> buf, n |-> 0 ]
LiveWrite(chunk, k) == [ kind |-> "live", data |-> chunk, n |-> k ]

\* (faulty variant of WriteTo: the destroyed flag is not looked at)
WriteTo_any(c, w) == [c EXCEPT !.q = Append(@, w)]

\* if (!c.destroyed) c.write(w)
WriteTo(c, w) ==
  IF c.st = "destroyed" THEN c ELSE [c EXCEPT !.q = Append(@, w)]

\* for (const c of session.clients) { if (!c.destroyed) c.write(w) }
WriteAll(S, w) == [c \in Clients |-> IF c \in S THEN WriteTo(cl[c], w) ELSE cl[c]]

\* c.end(): the writable side finishes; 'finish', 'end' and 'close' follow
EndOne(c) ==
  IF c.st = "open"
  THEN [c EXCEPT !.st = "ended", !.pend = <<"finish", "end", "close">>]
  ELSE c

\* for (const c of session.clients) { c.end() }
EndAll(S) == [c \in Clients |-> IF c \in S THEN EndOne(cl[c]) ELSE cl[c]]

\* if (session.initTimer) { clearTimeout(session.initTimer); ... }: whether
\* the timer is still pending afterwards
StillArmed(r) == IF session[r].initTimer THEN FALSE ELSE proc[r].timerArmed

\* a call of a service method with its argument and what it answered;
\* Event stands for a step that is no call: a subprocess, timer or queue
\* event
Called(op, sid, ret) == [ op |-> op, sid |-> sid, ret |-> ret ]
NoCall == Called("none", <<>>, "-")
Event == Called("event", <<>>, "-")

(* ----------------------------- the player ------------------------------ *)
\* the stream:data events the player is followed through
MaxSegs == 3

\* a media segment as it reaches the player: the payload of stream:init, or
\* of the n-th stream:data
InitSeg == [ kind |-> "init", n |-> 0 ]
DataSeg(k) == [ kind |-> "data", n |-> k ]

\* the player just mounted: sourceBufferRef.current is null, nothing is
\* queued in pendingBuffersRef, no handler is waiting at its await (conv,
\* in the order the events came in).  updating is SourceBuffer.updating.
\* History kept for the properties: sent counts the stream:data events
\* delivered, sentInit tells whether stream:init was, appendCalls lists the
\* calls of appendBuffer with the value of updating at the call and
\* whether the call returned (ok) or threw.
NewPlayer ==
  [ sourceBuffer |-> FALSE, updating |-> FALSE, pendingBuffers |-> <<>>,
    conv |-> <<>>, stopped |-> FALSE,
    sent |-> 0, sentInit |-> FALSE, appendCalls |-> <<>> ]

(* ------------------------------- Init ---------------------------------- *)
Init ==
  /\ sessions = [sid \in SIDs |-> 0]
  /\ session = [r \in Recs |-> NoSession]
  /\ proc = [r \in Recs |-> NoProc]
  /\ nrec = 0
  /\ cl = [c \in Clients |-> NoClient]
  /\ ncli = 0
  /\ last = NoCall
  /\ now = 1
  /\ handed = <<>>
  /\ activeStreams = {}
  /\ streamKey = [c \in Clients |-> <<>>]
  /\ emitted = [c \in Clients |-> <<>>]
  /\ listeners = [k \in Socks |-> <<>>]
  /\ gone = {}
  /\ idle = <<>>
  /\ detached = {}
  /\ player = NewPlayer

\* the session stored under sid exists and is active
TrackedActive(sid) ==
  IF sessions[sid] = 0 THEN FALSE ELSE session[sessions[sid]].isActive

(* ----------------------------- startStream ----------------------------- *)
\* (faulty variant of StartStreamExisting: the active session is not looked at
\* and a new record with a new subprocess takes its place)
StartStreamExisting_respawn(sid) ==
  /\ sessions[sid] # 0
  /\ nrec < MaxRecs
  /\ nrec' = nrec + 1
  /\ session' = [session EXCEPT ![nrec + 1] = NewSession(sid)]
  /\ proc' = [proc EXCEPT ![nrec + 1] = NewProc]
  /\ sessions' = [sessions EXCEPT ![sid] = nrec + 1]
  /\ UNCHANGED <<cl, ncli>>

\* the existing session is active: resolve() at once, nothing else happens
StartStreamExisting(sid) ==
  /\ TrackedActive(sid)
  /\ UNCHANGED vars

\* spawn() throws: reject, no session record is made
StartStreamSpawnThrows(sid) ==
  /\ ~TrackedActive(sid)
  /\ UNCHANGED vars

\* spawn() returns a process: the record is built, the handlers are
\* registered and the record is stored under sid
StartStream(sid) ==
  /\ ~TrackedActive(sid)
  /\ nrec' = nrec + 1
  /\ session' = [session EXCEPT ![nrec + 1] = NewSession(sid)]
  /\ proc' = [proc EXCEPT ![nrec + 1] = NewProc]
  /\ sessions' = [sessions EXCEPT ![sid] = nrec + 1]
  /\ UNCHANGED <<cl, ncli>>

(* --------------------------- process events ---------------------------- *)
\* resolve() / reject(err): a promise settles once, later calls do nothing
Settle(p, how) == IF p = "pending" THEN how ELSE p

\* proc.on('spawn')
ProcSpawn(r) ==
  /\ proc[r].st = "spawning"
  /\ proc' = [proc EXCEPT ![r].st = "running", ![r].timerArmed = TRUE,
                          ![r].promise = Settle(@, "resolved")]
  /\ session' = [session EXCEPT ![r].isActive = TRUE, ![r].initTimer = TRUE]
  /\ UNCHANGED <<sessions, nrec, cl, ncli>>

\* (faulty variant of ProcError: a process that could not be spawned is
\* taken to be still starting)
ProcError_retry(r) ==
  /\ proc[r].st \in {"spawning", "running"}
  /\ proc' = [proc EXCEPT ![r].promise = Settle(@, "rejected")]
  /\ session' = [session EXCEPT ![r].isActive = FALSE]
  /\ UNCHANGED <<sessions, nrec, cl, ncli>>

\* proc.on('error'): the process could not be spawned, or (while running)
\* could not be killed or signalled
ProcError(r) ==
  /\ proc[r].st \in {"spawning", "running"}
  /\ proc' = [proc EXCEPT ![r].st = IF @ = "spawning" THEN "failed" ELSE @,
                          ![r].promise = Settle(@, "rejected")]
  /\ session' = [session EXCEPT ![r].isActive = FALSE]
  /\ UNCHANGED <<sessions, nrec, cl, ncli>>

\* (faulty variant of ProcClose: the queues are cleared from the set without
\* being ended and the registry entry is left in place)
ProcClose_keep(r) ==
  /\ proc[r].st \in {"running", "failed"}
  /\ proc' = [proc EXCEPT ![r].st = "closed",
                          ![r].timerArmed = StillArmed(r)]
  /\ session' = [session EXCEPT ![r].isActive = FALSE,
                                ![r].initTimer = FALSE,
                                ![r].clients = {}]
  /\ UNCHANGED <<cl, sessions, nrec, ncli>>

\* proc.on('close')
ProcClose(r) ==
  /\ proc[r].st \in {"running", "failed"}
  /\ proc' = [proc EXCEPT ![r].st = "closed",
                          ![r].timerArmed = StillArmed(r)]
  /\ session' = [session EXCEPT ![r].isActive = FALSE,
                                ![r].initTimer = FALSE,
                                ![r].clients = {}]
  /\ cl' = EndAll(session[r].clients)
  /\ sessions' = [sessions EXCEPT ![session[r].id] = 0]
  /\ UNCHANGED <<nrec, ncli>>

(* --------------------------- stdout 'data' ----------------------------- *)
\* (faulty variant of SizeCapInit: the buffer is cut at the ceiling)
SizeCapInit_trunc(chunks) == SubSeq(Concat(chunks), 1, MAX_PREINIT_BYTES)

\* the init segment of the size-cap branch
SizeCapInit(chunks) == Concat(chunks)

\* (faulty variant of PatternInit: the buffer is cut at the end of the first marker)
PatternInit_cut(combined) ==
  LET hits == {i \in 1..(Len(combined) - 3) :
                 \E m \in Markers : SubSeq(combined, i, i + 3) = m}
      first == CHOOSE i \in hits : \A j \in hits : i <= j
  IN SubSeq(combined, 1, first + 3)

\* the init segment of the pattern-match branch (combined)
PatternInit(combined) == combined

\* (faulty variant of TimerInit: the chunks are concatenated newest first)
TimerInit_rev(chunks) ==
  Concat([i \in 1..Len(chunks) |-> chunks[Len(chunks) + 1 - i]])

\* the init segment promoted by the init timer
TimerInit(chunks) == Concat(chunks)

\* (faulty variant of Resolve: the buffered chunks are kept)
Resolve_keep(s, buf) == [s EXCEPT !.initBuffer = Some(buf)]

\* the session fields set by all three resolutions
Resolve(s, buf) ==
  [s EXCEPT !.initBuffer = Some(buf), !.preInitChunks = <<>>,
            !.preInitSize = 0]

\* (faulty variant of DataSizeCap: the warning is not logged)
DataSizeCap_silent(r, chunk, chunks) ==
  /\ session' = [session EXCEPT
                   ![r] = [Resolve(@, SizeCapInit(chunks)) EXCEPT
                             !.initTimer = FALSE]]
  /\ cl' = WriteAll(session[r].clients, InitWrite(SizeCapInit(chunks)))
  /\ proc' = [proc EXCEPT ![r].stdoutChunkCount = @ + 1,
                          ![r].out = Append(@, chunk),
                          ![r].timerArmed = StillArmed(r),
                          ![r].resolvedBy = "cap",
                          ![r].resAt = proc[r].stdoutChunkCount + 1]

\* proc.stdout.on('data'), pre-init branch taken by the size cap
DataSizeCap(r, chunk, chunks) ==
  /\ session' = [session EXCEPT
                   ![r] = [Resolve(@, SizeCapInit(chunks)) EXCEPT
                             !.initTimer = FALSE]]
  /\ cl' = WriteAll(session[r].clients, InitWrite(SizeCapInit(chunks)))
  /\ proc' = [proc EXCEPT ![r].stdoutChunkCount = @ + 1,
                          ![r].out = Append(@, chunk),
                          ![r].timerArmed = StillArmed(r),
                          ![r].resolvedBy = "cap",
                          ![r].resAt = proc[r].stdoutChunkCount + 1,
                          ![r].warned = @ \cup {WarnSizeCap}]

\* (faulty variant of DataPattern: the chunk that completed the marker is relayed
\* as a live byte range after the init segment)
DataPattern_relay(r, chunk, chunks) ==
  /\ session' = [session EXCEPT
                   ![r] = [Resolve(@, PatternInit(Concat(chunks))) EXCEPT
                             !.initTimer = FALSE]]
  /\ cl' = [c \in Clients |->
             IF c \in session[r].clients
             THEN WriteTo(WriteTo(cl[c],
                                  InitWrite(PatternInit(Concat(chunks)))),
                          LiveWrite(chunk, proc[r].stdoutChunkCount + 1))
             ELSE cl[c]]
  /\ proc' = [proc EXCEPT ![r].stdoutChunkCount = @ + 1,
                          ![r].out = Append(@, chunk),
                          ![r].timerArmed = StillArmed(r),
                          ![r].resolvedBy = "pattern",
                          ![r].resAt = proc[r].stdoutChunkCount + 1]

\* pre-init branch, a marker is in the combined buffer
DataPattern(r, chunk, chunks) ==
  /\ session' = [session EXCEPT
                   ![r] = [Resolve(@, PatternInit(Concat(chunks))) EXCEPT
                             !.initTimer = FALSE]]
  /\ cl' = WriteAll(session[r].clients,
                    InitWrite(PatternInit(Concat(chunks))))
  /\ proc' = [proc EXCEPT ![r].stdoutChunkCount = @ + 1,
                          ![r].out = Append(@, chunk),
                          ![r].timerArmed = StillArmed(r),
                          ![r].resolvedBy = "pattern",
                          ![r].resAt = proc[r].stdoutChunkCount + 1]

\* (faulty variant of DataBuffer: the buffered chunk is also written to the clients)
DataBuffer_relay(r, chunk, chunks) ==
  /\ session' = [session EXCEPT
                   ![r].preInitChunks = chunks,
                   ![r].preInitSize = @ + Len(chunk)]
  /\ proc' = [proc EXCEPT ![r].stdoutChunkCount = @ + 1,
                          ![r].out = Append(@, chunk)]
  /\ cl' = WriteAll(session[r].clients,
                    LiveWrite(chunk, proc[r].stdoutChunkCount + 1))

\* pre-init branch, still buffering
DataBuffer(r, chunk, chunks) ==
  /\ session' = [session EXCEPT
                   ![r].preInitChunks = chunks,
                   ![r].preInitSize = @ + Len(chunk)]
  /\ proc' = [proc EXCEPT ![r].stdoutChunkCount = @ + 1,
                          ![r].out = Append(@, chunk)]
  /\ UNCHANGED cl

\* the clients a live chunk is relayed to
LiveTargets(r) == session[r].clients

\* (faulty variant of DataLive: the chunk is written twice)
DataLive_twice(r, chunk) ==
  /\ cl' = [c \in Clients |->
             IF c \in LiveTargets(r)
             THEN WriteTo(WriteTo(cl[c],
                            LiveWrite(chunk, proc[r].stdoutChunkCount + 1)),
                          LiveWrite(chunk, proc[r].stdoutChunkCount + 1))
             ELSE cl[c]]
  /\ proc' = [proc EXCEPT ![r].stdoutChunkCount = @ + 1,
                          ![r].out = Append(@, chunk)]
  /\ UNCHANGED session

\* (faulty variant of DataLive: the relayed chunk is buffered as well)
DataLive_buffer(r, chunk) ==
  /\ cl' = WriteAll(LiveTargets(r),
                    LiveWrite(chunk, proc[r].stdoutChunkCount + 1))
  /\ proc' = [proc EXCEPT ![r].stdoutChunkCount = @ + 1,
                          ![r].out = Append(@, chunk)]
  /\ session' = [session EXCEPT
                   ![r].preInitChunks = Append(@, chunk),
                   ![r].preInitSize = @ + Len(chunk)]

\* normal streaming: write the chunk to the clients
DataLive(r, chunk) ==
  /\ cl' = WriteAll(LiveTargets(r),
                    LiveWrite(chunk, proc[r].stdoutChunkCount + 1))
  /\ proc' = [proc EXCEPT ![r].stdoutChunkCount = @ + 1,
                          ![r].out = Append(@, chunk)]
  /\ UNCHANGED session

\* (faulty variant of ProcData: only the chunk just received is scanned)
ProcData_scanChunk(r, chunk) ==
  /\ proc[r].st = "running"
  /\ LET chunks == Append(session[r].preInitChunks, chunk)
         size == session[r].preInitSize + Len(chunk)
     IN IF NoInit(session[r])
        THEN IF SizeCapExceeded(size)
             THEN DataSizeCap(r, chunk, chunks)
             ELSE IF HasMarker(chunk)
                  THEN DataPattern(r, chunk, chunks)
                  ELSE DataBuffer(r, chunk, chunks)
        ELSE DataLive(r, chunk)
  /\ UNCHANGED <<sessions, nrec, ncli>>

\* (faulty variant of ProcData: the markers are looked for before the size is
\* tested)
ProcData_patternFirst(r, chunk) ==
  /\ proc[r].st = "running"
  /\ LET chunks == Append(session[r].preInitChunks, chunk)
         size == session[r].preInitSize + Len(chunk)
     IN IF NoInit(session[r])
        THEN IF HasMarker(Concat(chunks))
             THEN DataPattern(r, chunk, chunks)
             ELSE IF SizeCapExceeded(size)
                  THEN DataSizeCap(r, chunk, chunks)
                  ELSE DataBuffer(r, chunk, chunks)
        ELSE DataLive(r, chunk)
  /\ UNCHANGED <<sessions, nrec, ncli>>

\* proc.stdout.on('data', chunk)
ProcData(r, chunk) ==
  /\ proc[r].st = "running"
  /\ LET chunks == Append(session[r].preInitChunks, chunk)
         size == session[r].preInitSize + Len(chunk)
     IN IF NoInit(session[r])
        THEN IF SizeCapExceeded(size)
             THEN DataSizeCap(r, chunk, chunks)
             ELSE IF HasMarker(Concat(chunks))
                  THEN DataPattern(r, chunk, chunks)
                  ELSE DataBuffer(r, chunk, chunks)
        ELSE DataLive(r, chunk)
  /\ UNCHANGED <<sessions, nrec, ncli>>

(* ----------------------------- init timer ------------------------------ *)
\* (faulty variant of TimerHasData: the length check is missing)
TimerHasData_always(s) == TRUE

\* session.preInitChunks.length > 0
TimerHasData(s) == Len(s.preInitChunks) > 0

\* the setTimeout callback armed by the 'spawn' handler
InitTimerFire(r) ==
  /\ proc[r].timerArmed
  /\ IF NoInit(session[r])
     THEN IF TimerHasData(session[r])
          THEN /\ session' = [session EXCEPT
                    ![r] = [Resolve(@, TimerInit(session[r].preInitChunks))
                              EXCEPT !.initTimer = FALSE]]
               /\ cl' = WriteAll(session[r].clients,
                           InitWrite(TimerInit(session[r].preInitChunks)))
               /\ proc' = [proc EXCEPT ![r].timerArmed = FALSE,
                                       ![r].timerFired = TRUE,
                                       ![r].firedAt = proc[r].stdoutChunkCount,
                                       ![r].resolvedBy = "timeout",
                                       ![r].resAt = proc[r].stdoutChunkCount,
                                       ![r].warned = @ \cup {WarnTimeout}]
          ELSE /\ session' = [session EXCEPT ![r].initTimer = FALSE]
               /\ proc' = [proc EXCEPT ![r].timerArmed = FALSE,
                                       ![r].timerFired = TRUE,
                                       ![r].firedAt = proc[r].stdoutChunkCount,
                                       ![r].warned = @ \cup {WarnNoData}]
               /\ UNCHANGED cl
     ELSE /\ proc' = [proc EXCEPT ![r].timerArmed = FALSE,
                                  ![r].timerFired = TRUE,
                                  ![r].firedAt = proc[r].stdoutChunkCount]
          /\ UNCHANGED <<session, cl>>
  /\ UNCHANGED <<sessions, nrec, ncli>>

(* ------------------------ getStreamData / stop ------------------------- *)
\* (faulty variant of GetStreamDataNull: the isActive test is missing, a queue
\* is attached to a tracked session that is not active)
GetStreamDataNull_attach(sid) ==
  /\ ~TrackedActive(sid)
  /\ IF sessions[sid] # 0 /\ ncli < MaxClients
     THEN /\ session' = [session EXCEPT
                           ![sessions[sid]].clients = @ \cup {ncli + 1},
                           ![sessions[sid]].clientCount = @ + 1]
          /\ cl' = [cl EXCEPT ![ncli + 1] = NewClient(sessions[sid])]
          /\ ncli' = ncli + 1
          /\ UNCHANGED <<sessions, proc, nrec>>
     ELSE UNCHANGED vars

\* getStreamData returns null: unknown or inactive session
GetStreamDataNull(sid) ==
  /\ ~TrackedActive(sid)
  /\ UNCHANGED vars

\* (faulty variant of FirstWrite: the new queue is not given the init segment)
FirstWrite_none(s, fresh) == fresh

\* if (session.initBuffer) { if (!client.destroyed) client.write(...) }
FirstWrite(s, fresh) ==
  IF NoInit(s) THEN fresh ELSE WriteTo(fresh, InitWrite(Bytes(s.initBuffer)))

\* getStreamData: a new queue is attached, and gets the init segment at once
\* when there is one
GetStreamData(sid) ==
  /\ TrackedActive(sid)
  /\ LET r == sessions[sid]
         c == ncli + 1
         fresh == NewClient(r)
     IN /\ session' = [session EXCEPT ![r].clients = @ \cup {c},
                                      ![r].clientCount = @ + 1]
        /\ cl' = [cl EXCEPT ![c] = FirstWrite(session[r], fresh)]
        /\ ncli' = c
  /\ UNCHANGED <<sessions, proc, nrec>>

\* the cleanup closure, run by the queue's next 'finish', 'end' or 'close'
ClientEvent(c) ==
  /\ cl[c].pend # <<>>
  /\ cl' = [cl EXCEPT ![c].pend = Tail(@)]
  /\ session' = [session EXCEPT
                   ![cl[c].sess].clients = @ \ {c},
                   ![cl[c].sess].clientCount = DecCount(@)]
  /\ UNCHANGED <<sessions, proc, nrec, ncli>>

\* the consumer destroys its queue (stream.destroy()); 'close' follows
ClientDestroy(c) ==
  /\ cl[c].st = "open" \/ (cl[c].st = "ended" /\ cl[c].pend # <<>>)
  /\ cl' = [cl EXCEPT ![c].st = "destroyed", ![c].pend = <<"close">>]
  /\ UNCHANGED <<sessions, session, proc, nrec, ncli>>

\* stopStream on an identifier the registry does not hold
StopStreamUnknown(sid) ==
  /\ sessions[sid] = 0
  /\ UNCHANGED vars

\* (faulty variant of StopStream: the subprocess is killed and the queues are
\* left for its 'close' handler to end)
StopStream_lazy(sid) ==
  /\ sessions[sid] # 0
  /\ proc' = [proc EXCEPT ![sessions[sid]].killed = TRUE]
  /\ session' = [session EXCEPT ![sessions[sid]].isActive = FALSE]
  /\ UNCHANGED <<sessions, cl, nrec, ncli>>

\* stopStream on a tracked session
StopStream(sid) ==
  /\ sessions[sid] # 0
  /\ LET r == sessions[sid]
     IN /\ proc' = [proc EXCEPT ![r].killed = TRUE,
                                ![r].timerArmed = StillArmed(r)]
        /\ session' = [session EXCEPT ![r].isActive = FALSE,
                                      ![r].initTimer = FALSE,
                                      ![r].clients = {}]
        /\ cl' = EndAll(session[r].clients)
        /\ sessions' = [sessions EXCEPT ![sid] = 0]
  /\ UNCHANGED <<nrec, ncli>>

(* ------------------------------ index.ts ------------------------------- *)
\* `${sessionId}-${socket.id}`
Key(sid, k) == sid \o <<"-">> \o k

\* key.startsWith(prefix)
StartsWith(key, prefix) ==
  Len(prefix) <= Len(key) /\ SubSeq(key, 1, Len(prefix)) = prefix

\* activeStreams, a Map, kept as the set of its <<key, queue>> entries
Has(m, key) == \E e \in m : e[1] = key
Put(m, key, c) == {e \in m : e[1] # key} \cup {<<key, c>>}
Del(m, K) == {e \in m : e[1] \notin K}

\* (faulty variant of DestroyOne: the queue is left as it is)
DestroyOne_not(c) == c

\* stream.destroy(): 'close' follows, 'finish' and 'end' no longer do
DestroyOne(c) ==
  IF c.st = "open" \/ (c.st = "ended" /\ c.pend # <<>>)
  THEN [c EXCEPT !.st = "destroyed", !.pend = <<"close">>]
  ELSE c

\* the clock moves on to the next millisecond
Tick ==
  /\ now + 1 \in Times
  /\ now' = now + 1
  /\ UNCHANGED <<player, vars, handed, activeStreams, streamKey, sockvars>>

\* POST /api/stream/start, the session of the computed id is active:
\* startStream resolves at once and the id is sent back
PostStartExisting ==
  /\ StartStreamExisting(SessionId(now))
  /\ handed' = Append(handed, SessionId(now))
  /\ UNCHANGED <<player, now, activeStreams, streamKey, sockvars>>

\* POST /api/stream/start, spawn() throws: answered with status 500
PostStartSpawnThrows ==
  /\ StartStreamSpawnThrows(SessionId(now))
  /\ UNCHANGED appvars

\* POST /api/stream/start, a subprocess is spawned: the handler awaits the
\* promise, which the 'spawn' or the 'error' event settles
PostStart ==
  /\ StartStream(SessionId(now))
  /\ UNCHANGED appvars

\* 'spawn': the promise resolves and the awaiting handler sends the id back
PostStartAnswered(r) ==
  /\ ProcSpawn(r)
  /\ handed' = Append(handed, session[r].id)
  /\ UNCHANGED <<player, now, activeStreams, streamKey, sockvars>>

\* socket.emit(ev, payload) of a watch handler; w is the write the payload
\* came from (none for stream:ready and stream:end)
NoWrite == [ kind |-> "none", data |-> <<>>, n |-> 0 ]
Emit(ev, w) == [ ev |-> ev, w |-> w ]

\* how many writes of queue c its 'data' listener has sent on
Relayed(c) == Cardinality({i \in 1..Len(emitted[c]) :
                             emitted[c][i].ev = "stream:data"})

\* the session id in the closure of the watch handler of queue c
WatchSid(c) == session[cl[c].sess].id

\* a queue has work left in the current turn of the event loop: an event
\* to emit, or (it has a 'data' listener and is flowing) a write to pass on
Pending(c) ==
  \/ cl[c].pend # <<>>
  \/ cl[c].st # "destroyed" /\ Relayed(c) < Len(cl[c].q)

\* every queue has run dry: the event loop takes the next request, socket
\* message, subprocess event or timer
Quiet == \A c \in 1..ncli : ~Pending(c)

\* socket.on('stream:watch'), getSessionStatus gives null or not active:
\* stream:error 'Stream not found or not active'
SocketWatchRefused(k, sid) ==
  /\ k \notin gone
  /\ ~TrackedActive(sid)
  /\ UNCHANGED <<vars, appvars>>

\* (faulty variant of SocketWatchAlready: the key is not looked up and a second
\* queue is attached and stored under it)
SocketWatchAlready_again(k, sid) ==
  /\ k \notin gone
  /\ TrackedActive(sid)
  /\ Has(activeStreams, Key(sid, k))
  /\ IF ncli < MaxDetClients
     THEN /\ GetStreamData(sid)
          /\ activeStreams' = Put(activeStreams, Key(sid, k), ncli + 1)
          /\ streamKey' = [streamKey EXCEPT ![ncli + 1] = Key(sid, k)]
          /\ UNCHANGED <<player, now, handed, sockvars>>
     ELSE UNCHANGED <<vars, appvars>>

\* socket.on('stream:watch'), the socket's key is in activeStreams:
\* stream:error 'Already watching this stream'
SocketWatchAlready(k, sid) ==
  /\ k \notin gone
  /\ TrackedActive(sid)
  /\ Has(activeStreams, Key(sid, k))
  /\ UNCHANGED <<vars, appvars>>

\* const init = getInitSegment(sessionId); if (init) socket.emit(
\* 'stream:init', init)
InitEmit(s) ==
  IF s.initBuffer = Null THEN <<>>
  ELSE <<Emit("stream:init", InitWrite(Bytes(s.initBuffer)))>>

\* socket.on('stream:watch') accepted: getStreamData attaches a queue (it
\* cannot return null here, the session was just seen active), the queue is
\* stored under the socket's key, stream:init and stream:ready are sent and
\* the 'data', 'end' and 'stream:unwatch' listeners are registered
SocketWatch(k, sid) ==
  /\ k \notin gone
  /\ TrackedActive(sid)
  /\ ~Has(activeStreams, Key(sid, k))
  /\ GetStreamData(sid)
  /\ activeStreams' = Put(activeStreams, Key(sid, k), ncli + 1)
  /\ streamKey' = [streamKey EXCEPT ![ncli + 1] = Key(sid, k)]
  /\ emitted' = [emitted EXCEPT ![ncli + 1] =
                   InitEmit(session[sessions[sid]])
                     \o <<Emit("stream:ready", NoWrite)>>]
  /\ listeners' = [listeners EXCEPT ![k] = Append(@, ncli + 1)]
  /\ UNCHANGED <<player, now, handed, gone, idle, detached>>

\* stream.on('data'): the next write of the queue is sent as stream:data
StreamData(c) ==
  /\ cl[c].st # "destroyed"
  /\ Relayed(c) < Len(cl[c].q)
  /\ emitted' = [emitted EXCEPT
                   ![c] = Append(@, Emit("stream:data",
                                         cl[c].q[Relayed(c) + 1]))]
  /\ UNCHANGED <<player, vars, now, handed, activeStreams, streamKey,
                 listeners, gone, idle, detached>>

\* (faulty variant of StreamEvent: the 'end' listener is missing)
StreamEvent_deaf(c) ==
  /\ cl[c].pend # <<>>
  /\ Head(cl[c].pend) = "end" => Relayed(c) = Len(cl[c].q)
  /\ ClientEvent(c)
  /\ UNCHANGED appvars

\* the next event of a queue: the service's cleanup, and on 'end' (emitted
\* once every write has been read) the listener of the watch handler:
\* stream:end, activeStreams.delete(streamKey)
StreamEvent(c) ==
  /\ cl[c].pend # <<>>
  /\ Head(cl[c].pend) = "end" => Relayed(c) = Len(cl[c].q)
  /\ ClientEvent(c)
  /\ IF Head(cl[c].pend) = "end"
     THEN /\ activeStreams' = Del(activeStreams, {streamKey[c]})
          /\ emitted' = [emitted EXCEPT
                           ![c] = Append(@, Emit("stream:end", NoWrite))]
     ELSE UNCHANGED <<activeStreams, emitted>>
  /\ UNCHANGED <<player, now, handed, streamKey, listeners, gone, idle, detached>>

\* the entries of activeStreams in S, in the order forEach visits them
\* (insertion order: a later queue was stored later)
RECURSIVE InOrder(_)
InOrder(S) ==
  IF S = {} THEN <<>>
  ELSE LET e == CHOOSE x \in S : \A y \in S : x[2] <= y[2]
       IN <<e>> \o InOrder(S \ {e})

\* the distinct elements of a sequence, in order of first occurrence
\* (a Set filled with add())
RECURSIVE Distinct(_)
Distinct(s) ==
  IF s = <<>> THEN <<>>
  ELSE LET rest == Distinct(SubSeq(s, 1, Len(s) - 1))
       IN IF \E i \in 1..Len(rest) : rest[i] = s[Len(s)]
          THEN rest ELSE Append(rest, s[Len(s)])

\* socket.on('stream:unwatch'): every listener the socket's accepted
\* watches registered runs: the stream stored under its key, if any, is
\* destroyed and the key deleted, all 'stream:unwatch' listeners are
\* removed, and an idle check of its session id is scheduled
SocketUnwatch(k) ==
  LET ls == listeners[k]
      hit == {e \in activeStreams :
                \E i \in 1..Len(ls) : e[1] = streamKey[ls[i]]}
  IN /\ k \notin gone
     /\ ls # <<>>
     /\ cl' = [c \in Clients |->
                IF \E e \in hit : e[2] = c THEN DestroyOne(cl[c]) ELSE cl[c]]
     /\ activeStreams' = activeStreams \ hit
     /\ listeners' = [listeners EXCEPT ![k] = <<>>]
     /\ idle' = idle \o [i \in 1..Len(ls) |-> WatchSid(ls[i])]
     /\ detached' = detached \cup {e[2] : e \in hit}
     /\ UNCHANGED <<player, sessions, session, proc, nrec, ncli,
                    now, handed, streamKey, emitted, gone>>

\* key.slice(0, -socket.id.length - 1)
SliceSid(key, k) == SubSeq(key, 1, Len(key) - Len(k) - 1)

\* socket.on('disconnect'): every stream whose key includes the socket id
\* is destroyed and its key deleted, and an idle check is scheduled for
\* each session id recovered from those keys
SocketDisconnect(k) ==
  LET hit == {e \in activeStreams : Includes(e[1], k)}
      order == InOrder(hit)
  IN /\ k \notin gone
     /\ gone' = gone \cup {k}
     /\ cl' = [c \in Clients |->
                IF \E e \in hit : e[2] = c THEN DestroyOne(cl[c]) ELSE cl[c]]
     /\ activeStreams' = activeStreams \ hit
     /\ idle' = idle \o Distinct([i \in 1..Len(order) |->
                                    SliceSid(order[i][1], k)])
     /\ detached' = detached \cup {e[2] : e \in hit}
     /\ UNCHANGED <<player, sessions, session, proc, nrec, ncli,
                    now, handed, streamKey, emitted, listeners>>

\* status.isActive && status.clientCount === 0, status being what
\* getSessionStatus(x) returns (null for an id the registry does not hold)
IdleNow(x) ==
  /\ x \in SIDs
  /\ TrackedActive(x)
  /\ session[sessions[x]].clientCount = 0

\* (faulty variant of IdleCheck: the session is stopped whatever its count)
IdleCheck_always ==
  /\ idle # <<>>
  /\ idle' = Tail(idle)
  /\ IF Head(idle) \in SIDs /\ TrackedActive(Head(idle))
     THEN StopStream(Head(idle))
     ELSE UNCHANGED vars
  /\ UNCHANGED <<player, now, handed, activeStreams, streamKey,
                 emitted, listeners, gone, detached>>

\* the setTimeout callback of maybeStopSessionIfIdle(x)
IdleCheck ==
  /\ idle # <<>>
  /\ idle' = Tail(idle)
  /\ IF IdleNow(Head(idle))
     THEN StopStream(Head(idle))
     ELSE UNCHANGED vars
  /\ UNCHANGED <<player, now, handed, activeStreams, streamKey,
                 emitted, listeners, gone, detached>>

\* POST /api/stream/stop/:sessionId: stopStream(x), then every stream
\* whose key starts with `${x}-` is destroyed and its key deleted
PostStop(x) ==
  LET r == IF x \in SIDs THEN sessions[x] ELSE 0
      ended == IF r = 0 THEN cl ELSE EndAll(session[r].clients)
      hit == {e \in activeStreams : StartsWith(e[1], x \o <<"-">>)}
  IN /\ IF r = 0
        THEN UNCHANGED <<sessions, session, proc>>
        ELSE /\ proc' = [proc EXCEPT ![r].killed = TRUE,
                                     ![r].timerArmed = StillArmed(r)]
             /\ session' = [session EXCEPT ![r].isActive = FALSE,
                                           ![r].initTimer = FALSE,
                                           ![r].clients = {}]
             /\ sessions' = [sessions EXCEPT ![x] = 0]
     /\ cl' = [c \in Clients |->
                IF \E e \in hit : e[2] = c
                THEN DestroyOne(ended[c]) ELSE ended[c]]
     /\ activeStreams' = activeStreams \ hit
     /\ UNCHANGED <<player, nrec, ncli, now, handed, streamKey, sockvars>>

(* --------------------------- VideoPlayer.tsx --------------------------- *)
\* what the player's handlers leave alone: the server
servervars == <<vars, last, now, handed, activeStreams, streamKey, sockvars>>

\* how a call of appendBuffer can go
Outcomes == {"appended", "throws"}

\* sourceBuffer.appendBuffer(seg): on a SourceBuffer that is updating the
\* call throws; otherwise it returns with updating set, or throws (buffer
\* full, source removed) as the environment decides
AppendBuffer(p, seg, how) ==
  LET ok == how = "appended" /\ ~p.updating
  IN [p EXCEPT !.appendCalls = Append(@, [ seg |-> seg,
                                           updating |-> p.updating,
                                           ok |-> ok ]),
               !.updating = IF ok THEN TRUE ELSE @]

\* the last call of appendBuffer threw
Threw(p) == ~p.appendCalls[Len(p.appendCalls)].ok

\* handleAppendFailure: stream:unwatch is sent once and the queue cleared
HandleAppendFailure(p) ==
  [p EXCEPT !.stopped = TRUE, !.pendingBuffers = <<>>]

\* const next = pendingBuffersRef.current.shift(); appendBuffer(next),
\* with handleAppendFailure in the catch block
ShiftAndAppend(p, how) ==
  LET q == AppendBuffer([p EXCEPT !.pendingBuffers = Tail(@)],
                        Head(p.pendingBuffers), how)
  IN IF Threw(q) THEN HandleAppendFailure(q) ELSE q

\* mediaSource 'sourceopen': the SourceBuffer is made, the 'updateend'
\* listener registered, the first queued segment flushed
SourceOpen(how) ==
  /\ ~player.sourceBuffer
  /\ LET p == [player EXCEPT !.sourceBuffer = TRUE]
     IN player' = IF p.pendingBuffers # <<>>
                  THEN ShiftAndAppend(p, how)
                  ELSE p
  /\ UNCHANGED servervars

\* socket.on('stream:init'), up to its await
StreamInitReceived ==
  /\ ~player.sentInit
  /\ player' = [player EXCEPT !.sentInit = TRUE,
                              !.conv = Append(@, InitSeg)]
  /\ UNCHANGED servervars

\* socket.on('stream:data'), up to its await: without a SourceBuffer the
\* segment is dropped
StreamDataReceived ==
  /\ player' = [player EXCEPT
                  !.sent = @ + 1,
                  !.conv = IF player.sourceBuffer
                           THEN Append(@, DataSeg(player.sent + 1))
                           ELSE @]
  /\ UNCHANGED servervars

\* socket.on('stream:init'), after its await: the init segment goes to the
\* head of the queue and, if the SourceBuffer is there and idle, the head
\* of the queue is appended
StreamInitConverted(how) ==
  /\ player.conv # <<>>
  /\ Head(player.conv).kind = "init"
  /\ LET p == [player EXCEPT
                 !.conv = Tail(@),
                 !.pendingBuffers = <<Head(player.conv)>> \o @]
     IN player' = IF p.sourceBuffer /\ ~p.updating
                  THEN ShiftAndAppend(p, how)
                  ELSE p
  /\ UNCHANGED servervars

\* (faulty variant of StreamDataConverted: the segment is appended at once,
\* whatever the SourceBuffer is doing)
StreamDataConverted_eager(how) ==
  /\ player.conv # <<>>
  /\ Head(player.conv).kind = "data"
  /\ player' = AppendBuffer([player EXCEPT !.conv = Tail(@)],
                            Head(player.conv), how)
  /\ UNCHANGED servervars

\* socket.on('stream:data'), after its await: the segment is queued while
\* the SourceBuffer is updating or the queue is not empty, and appended
\* otherwise (a throw is reported, the queue is empty already)
StreamDataConverted(how) ==
  /\ player.conv # <<>>
  /\ Head(player.conv).kind = "data"
  /\ LET p == [player EXCEPT !.conv = Tail(@)]
     IN player' = IF p.updating \/ p.pendingBuffers # <<>>
                  THEN [p EXCEPT !.pendingBuffers =
                                    Append(@, Head(player.conv))]
                  ELSE AppendBuffer(p, Head(player.conv), how)
  /\ UNCHANGED servervars

\* sourceBuffer 'updateend': the append has finished; while the
\* SourceBuffer is idle and the queue is not empty the head of the queue is
\* appended (a successful append sets updating and ends the loop, a throw
\* or a media error of the video element clears the queue)
UpdateEnd(how) ==
  /\ player.updating
  /\ LET p == [player EXCEPT !.updating = FALSE]
     IN player' = IF p.pendingBuffers = <<>>
                  THEN p
                  ELSE IF how = "media-error"
                       THEN HandleAppendFailure(
                              [p EXCEPT !.pendingBuffers = Tail(@)])
                       ELSE ShiftAndAppend(p, how)
  /\ UNCHANGED servervars

(* ------------------------------- Next ---------------------------------- *)
\* One session record followed through its whole life: startStream builds
\* a record once; the other operations and events come in any order and
\* number, within MaxChunks and MaxClients.
\* the service driven directly: no HTTP request is in play and no call is
\* recorded
Held == UNCHANGED apivars

Next ==
  \/ \E sid \in SIDs : StartStreamExisting(sid) /\ Held
  \/ \E sid \in SIDs : StartStreamSpawnThrows(sid) /\ Held
  \/ \E sid \in SIDs : nrec = 0 /\ StartStream(sid) /\ Held
  \/ \E r \in 1..nrec : ProcSpawn(r) /\ Held
  \/ \E r \in 1..nrec : ProcError(r) /\ Held
  \/ \E r \in 1..nrec : ProcClose(r) /\ Held
  \/ \E r \in 1..nrec : \E chunk \in ChunkValues :
        TotalChunks < MaxChunks /\ ProcData(r, chunk) /\ Held
  \/ \E r \in 1..nrec : InitTimerFire(r) /\ Held
  \/ \E sid \in SIDs : GetStreamDataNull(sid) /\ Held
  \/ \E sid \in SIDs : ncli < MaxClients /\ GetStreamData(sid) /\ Held
  \/ \E c \in 1..ncli : ClientEvent(c) /\ Held
  \/ \E c \in 1..ncli : ClientDestroy(c) /\ Held
  \/ \E sid \in SIDs : StopStreamUnknown(sid) /\ Held
  \/ \E sid \in SIDs : StopStream(sid) /\ Held

Spec == Init /\ [][Next]_allvars

(* --------------------------- the registry ------------------------------ *)
\* Several session records side by side, under the same or different
\* identifiers: every operation and event of Next, with startStream free to
\* build up to MaxRecs records and stdout held to MaxRegChunks chunks.
\* the step is the call op(sid) and ret is its answer
Was(op, sid, ret) == last' = Called(op, sid, ret) /\ UNCHANGED appvars
\* the step is an event
WasEvent == last' = Event /\ UNCHANGED appvars

NextReg ==
  \/ \E sid \in SIDs :
        StartStreamExisting(sid) /\ Was("startStream", sid, "resolved")
  \/ \E sid \in SIDs :
        StartStreamSpawnThrows(sid) /\ Was("startStream", sid, "rejected")
  \/ \E sid \in SIDs :
        nrec < MaxRecs /\ StartStream(sid) /\ Was("startStream", sid, "pending")
  \/ \E r \in 1..nrec : ProcSpawn(r) /\ WasEvent
  \/ \E r \in 1..nrec : ProcError(r) /\ WasEvent
  \/ \E r \in 1..nrec : ProcClose(r) /\ WasEvent
  \/ \E r \in 1..nrec : \E chunk \in ChunkValues :
        TotalChunks < MaxRegChunks /\ ProcData(r, chunk) /\ WasEvent
  \/ \E r \in 1..nrec : InitTimerFire(r) /\ WasEvent
  \/ \E sid \in SIDs :
        GetStreamDataNull(sid) /\ Was("getStreamData", sid, "null")
  \/ \E k \in Socks : \E sid \in SIDs :
        /\ SocketWatchRefused(k, sid)
        /\ last' = Called("stream:watch", sid, "stream:error")
  \/ \E sid \in SIDs :
        ncli < MaxClients /\ GetStreamData(sid)
          /\ Was("getStreamData", sid, "queue")
  \/ \E c \in 1..ncli : ClientEvent(c) /\ WasEvent
  \/ \E c \in 1..ncli : ClientDestroy(c) /\ WasEvent
  \/ \E sid \in SIDs : StopStreamUnknown(sid) /\ Was("stopStream", sid, "void")
  \/ \E sid \in SIDs : StopStream(sid) /\ Was("stopStream", sid, "void")

SpecReg == Init /\ [][NextReg]_allvars

(* ------------------------ attach and detach --------------------------- *)
\* The accounting of clients and clientCount: up to MaxRecs session records
\* and MaxDetClients queues, attached, destroyed, ended and cleaned up in
\* any order, with subprocesses that deliver no stdout data.
NextDet ==
  \/ \E sid \in SIDs : nrec < MaxRecs /\ StartStream(sid) /\ Held
  \/ \E r \in 1..nrec : ProcSpawn(r) /\ Held
  \/ \E r \in 1..nrec : ProcError(r) /\ Held
  \/ \E r \in 1..nrec : ProcClose(r) /\ Held
  \/ \E sid \in SIDs : ncli < MaxDetClients /\ GetStreamData(sid) /\ Held
  \/ \E c \in 1..ncli : ClientEvent(c) /\ Held
  \/ \E c \in 1..ncli : ClientDestroy(c) /\ Held
  \/ \E sid \in SIDs : StopStream(sid) /\ Held

SpecDet == Init /\ [][NextDet]_allvars

(* ------------------------- the watching sockets ------------------------ *)
\* One session started over HTTP and the sockets that watch it: the watch,
\* unwatch and disconnect handlers, the idle check, the stop request, the
\* subprocess with up to MaxRegChunks stdout chunks and its init timer, and
\* the events of the queues.  A queue's events and the relay of its writes
\* run in the turn of the event loop that caused them, so every other
\* handler waits until the queues are Quiet.
\* a stream:watch message of socket k for sid and the event it was
\* answered with
Asked(k, sid, ret) ==
  [ op |-> "stream:watch", sid |-> sid, ret |-> ret, by |-> k ]

NextSock ==
  \/ /\ Quiet /\ nrec = 0
     /\ PostStart
     /\ last' = Called("POST start", SessionId(now), "pending")
  \/ \E r \in 1..nrec : Quiet /\ PostStartAnswered(r) /\ last' = Event
  \/ \E r \in 1..nrec : Quiet /\ ProcError(r) /\ WasEvent
  \/ \E r \in 1..nrec : Quiet /\ ProcClose(r) /\ WasEvent
  \/ \E r \in 1..nrec : \E chunk \in ChunkValues :
        /\ Quiet /\ TotalChunks < MaxRegChunks
        /\ ProcData(r, chunk) /\ WasEvent
  \/ \E r \in 1..nrec : Quiet /\ InitTimerFire(r) /\ WasEvent
  \/ \E k \in Socks : \E sid \in SIDs :
        /\ Quiet
        /\ SocketWatchRefused(k, sid)
        /\ last' = Asked(k, sid, "stream:error")
  \/ \E k \in Socks : \E sid \in SIDs :
        /\ Quiet
        /\ SocketWatchAlready(k, sid)
        /\ last' = Asked(k, sid, "stream:error")
  \/ \E k \in Socks : \E sid \in SIDs :
        /\ Quiet /\ ncli < MaxDetClients
        /\ SocketWatch(k, sid)
        /\ last' = Asked(k, sid, "stream:ready")
  \/ \E c \in 1..ncli : StreamData(c) /\ last' = Event
  \/ \E c \in 1..ncli : StreamEvent(c) /\ last' = Event
  \/ \E k \in Socks : Quiet /\ SocketUnwatch(k) /\ last' = Event
  \/ \E k \in Socks : Quiet /\ SocketDisconnect(k) /\ last' = Event
  \/ Quiet /\ IdleCheck /\ last' = Event
  \/ \E x \in SIDs :
        Quiet /\ PostStop(x) /\ last' = Called("POST stop", x, "success")

SpecSock == Init /\ [][NextSock]_allvars

\* The same, with the scheduling Node guarantees: the listeners of a
\* queue's 'data', 'finish', 'end' and 'close' events are run from the
\* nextTick queue, which is emptied before the event loop goes on, so a
\* queue event that is due is never postponed for ever.
SpecSockLive ==
  /\ SpecSock
  /\ \A c \in Clients :
       /\ WF_allvars(StreamData(c) /\ last' = Event)
       /\ WF_allvars(StreamEvent(c) /\ last' = Event)

(* ------------------------------ the server ----------------------------- *)
\* The server: the HTTP start and stop requests, the socket watch, unwatch
\* and disconnect handlers and the idle check of index.ts, with the spawn,
\* error and close events of the subprocesses and the events of the queues
\* underneath; up to MaxRecs session records, and subprocesses that deliver
\* no stdout data.  The handlers wait until the queues are Quiet.
NextApp ==
  \/ Quiet /\ Tick /\ last' = Event
  \/ /\ Quiet /\ Len(handed) < MaxPosts
     /\ PostStartExisting
     /\ last' = Called("POST start", SessionId(now), "resolved")
  \/ /\ Quiet
     /\ PostStartSpawnThrows
     /\ last' = Called("POST start", SessionId(now), "rejected")
  \/ /\ Quiet /\ nrec < MaxRecs
     /\ PostStart
     /\ last' = Called("POST start", SessionId(now), "pending")
  \/ \E r \in 1..nrec : Quiet /\ PostStartAnswered(r) /\ last' = Event
  \/ \E r \in 1..nrec : Quiet /\ ProcError(r) /\ WasEvent
  \/ \E r \in 1..nrec : Quiet /\ ProcClose(r) /\ WasEvent
  \/ \E k \in Socks : \E sid \in SIDs :
        /\ Quiet
        /\ SocketWatchRefused(k, sid)
        /\ last' = Called("stream:watch", sid, "stream:error")
  \/ \E k \in Socks : \E sid \in SIDs :
        /\ Quiet
        /\ SocketWatchAlready(k, sid)
        /\ last' = Called("stream:watch", sid, "stream:error")
  \/ \E k \in Socks : \E sid \in SIDs :
        /\ Quiet /\ ncli < MaxClients
        /\ SocketWatch(k, sid)
        /\ last' = Called("stream:watch", sid, "stream:ready")
  \/ \E c \in 1..ncli : StreamEvent(c) /\ last' = Event
  \/ \E k \in Socks : Quiet /\ SocketUnwatch(k) /\ last' = Event
  \/ \E k \in Socks : Quiet /\ SocketDisconnect(k) /\ last' = Event
  \/ Quiet /\ IdleCheck /\ last' = Event
  \/ \E x \in StopParams :
        Quiet /\ PostStop(x) /\ last' = Called("POST stop", x, "success")

SpecApp == Init /\ [][NextApp]_allvars

(* ------------------------- the browser player -------------------------- *)
\* One mounted VideoPlayer and its SourceBuffer: 'sourceopen', a
\* stream:init and up to MaxSegs stream:data events arriving at any moment,
\* the continuations of their handlers in the order the events came in,
\* and 'updateend' after each append; every call of appendBuffer may throw.
NextPlay ==
  \/ \E how \in Outcomes : SourceOpen(how)
  \/ StreamInitReceived
  \/ player.sent < MaxSegs /\ StreamDataReceived
  \/ \E how \in Outcomes : StreamInitConverted(how)
  \/ \E how \in Outcomes : StreamDataConverted(how)
  \/ \E how \in Outcomes \cup {"media-error"} : UpdateEnd(how)

SpecPlay == Init /\ [][NextPlay]_allvars

(* ---------------------- notation of the properties --------------------- *)
Max(a, b) == IF a > b THEN a ELSE b

\* the session record holds no init segment
Unresolved(s) == s.initBuffer = Null

\* the live byte ranges written to a queue, in the order written
Lives(q) == SelectSeq(q, LAMBDA w : w.kind = "live")

\* how many times an init segment was written to a queue
Inits(q) == Cardinality({i \in 1..Len(q) : q[i].kind = "init"})

\* the first k chunks stdout delivered, concatenated
OutPrefix(r, k) == Concat(SubSeq(proc[r].out, 1, k))

\* the queue is in its session's client set and is open for writes
Attached(c) == c \in session[cl[c].sess].clients /\ cl[c].st = "open"

\* the first chunk that is a live byte range for queue c: the one after
\* the resolution, or after the attach when that came later
FirstLive(c) == Max(cl[c].at, proc[cl[c].sess].resAt) + 1

(* ------------------------------- claims -------------------------------- *)
\* C1: in every step of every session, an initBuffer that is set keeps its
\* value: it is assigned at most once and its bytes never change, whatever
\* chunks, timer firing, stop, close or error events follow.
C1_InitSetOnce ==
  [][\A r \in Recs :
       session[r].initBuffer # Null =>
         session'[r].initBuffer = session[r].initBuffer]_vars

\* C1 witness: the timer resolved the session and the chunks delivered
\* since complete a marker, so the pattern trigger could have fired too
C1_Witness ==
  \E r \in 1..nrec :
    /\ proc[r].resolvedBy = "timeout"
    /\ proc[r].stdoutChunkCount > proc[r].resAt
    /\ HasMarker(Concat(proc[r].out))

\* C2: while a session's initBuffer is unset every queue of the session is
\* empty, and the first write a queue ever holds is the init segment.
C2_NothingBeforeInit ==
  \A c \in 1..ncli :
    LET s == session[cl[c].sess]
    IN /\ Unresolved(s) => cl[c].q = <<>>
       /\ cl[c].q # <<>> => cl[c].q[1] = InitWrite(Bytes(s.initBuffer))

\* C2 witness: a queue attached before the resolution, after at least one
\* chunk had been buffered, now holds the init segment and a live chunk
C2_Witness ==
  \E c \in 1..ncli :
    /\ ~cl[c].late
    /\ cl[c].at >= 1
    /\ Len(cl[c].q) >= 2

\* C3: the live byte ranges in a queue are the chunks stdout delivered from
\* the queue's first live chunk on, consecutive and in order; a queue that
\* is still attached holds all of them up to the last chunk delivered.
C3_LiveInOrder ==
  \A c \in 1..ncli :
    LET r == cl[c].sess
        live == Lives(cl[c].q)
        from == FirstLive(c)
    IN /\ \A i \in 1..Len(live) :
            /\ from + i - 1 <= proc[r].stdoutChunkCount
            /\ live[i] = LiveWrite(proc[r].out[from + i - 1], from + i - 1)
       /\ (Attached(c) /\ ~Unresolved(session[r])) =>
            Len(live) = proc[r].stdoutChunkCount - from + 1

\* C3 witness: an attached queue holds two live chunks
C3_Witness ==
  \E c \in 1..ncli : Attached(c) /\ Len(Lives(cl[c].q)) >= 2

\* C4: a queue attached when initBuffer was already set holds the init
\* segment as its first write, from the attach on (so before any chunk).
C4_LateJoinerInitFirst ==
  \A c \in 1..ncli :
    cl[c].late =>
      /\ Len(cl[c].q) >= 1
      /\ cl[c].q[1] = InitWrite(Bytes(session[cl[c].sess].initBuffer))

\* C4 witness: a late joiner that has the init segment and one live chunk
C4_Witness ==
  \E c \in 1..ncli :
    cl[c].late /\ Len(cl[c].q) = 2 /\ cl[c].q[2].kind = "live"

\* C5: the step that sets initBuffer (by marker, size cap or timer) leaves
\* every queue that is in the client set and not destroyed holding exactly
\* one write, the init segment: the chunk handled in that step is not also
\* relayed.  No queue ever holds the init segment twice.
C5_InitOncePerClient ==
  /\ [](\A c \in 1..ncli : Inits(cl[c].q) <= 1)
  /\ [][\A r \in 1..nrec :
          (Unresolved(session[r]) /\ ~Unresolved(session'[r])) =>
            \A c \in session[r].clients :
              cl[c].st # "destroyed" =>
                cl'[c].q = <<InitWrite(Bytes(session'[r].initBuffer))>>]_vars

\* C5 witness: a marker has just resolved the session (no chunk since) and
\* a queue attached before that holds the init segment
C5_Witness ==
  \E c \in 1..ncli :
    /\ ~cl[c].late
    /\ proc[cl[c].sess].resolvedBy = "pattern"
    /\ proc[cl[c].sess].stdoutChunkCount = proc[cl[c].sess].resAt
    /\ Inits(cl[c].q) = 1

\* C6: when the pattern branch resolved the session at chunk k, the marker
\* is in chunks 1..k and not in chunks 1..k-1, initBuffer is all of chunks
\* 1..k, and for a queue attached before that the first live byte range is
\* chunk k+1 (an attached queue has it as soon as it is delivered).
C6_PatternInitIsPrefix ==
  \A r \in 1..nrec :
    proc[r].resolvedBy = "pattern" =>
      LET k == proc[r].resAt
      IN /\ k >= 1
         /\ HasMarker(OutPrefix(r, k))
         /\ ~HasMarker(OutPrefix(r, k - 1))
         /\ session[r].initBuffer = Some(OutPrefix(r, k))
         /\ \A c \in 1..ncli :
              (cl[c].sess = r /\ ~cl[c].late) =>
                /\ Lives(cl[c].q) # <<>> =>
                     Lives(cl[c].q)[1] = LiveWrite(proc[r].out[k + 1], k + 1)
                /\ (Attached(c) /\ proc[r].stdoutChunkCount > k) =>
                     Lives(cl[c].q) # <<>>

\* C6 witness: the marker was completed by chunk 2, bytes follow it in that
\* chunk, and a queue attached before holds chunk 3 as a live byte range
C6_Witness ==
  \E c \in 1..ncli :
    LET r == cl[c].sess
    IN /\ ~cl[c].late
       /\ proc[r].resolvedBy = "pattern"
       /\ proc[r].resAt = 2
       /\ HasMarker(SubSeq(Bytes(session[r].initBuffer), 1,
                            Len(Bytes(session[r].initBuffer)) - 1))
       /\ Len(Lives(cl[c].q)) = 1

\* C7 as claimed: an unresolved session has buffered fewer bytes than the
\* ceiling, i.e. reaching the ceiling (equality included) resolves it in the
\* processing of that chunk.
C7_Original ==
  \A r \in 1..nrec :
    Unresolved(session[r]) => session[r].preInitSize < MAX_PREINIT_BYTES

\* C7 amended: resolution by size occurs during the processing of the first
\* chunk at which the buffered bytes exceed the ceiling: an unresolved
\* session never holds more than the ceiling, and a size-cap init segment
\* is longer than the ceiling while without its last chunk it was not.
C7_ResolvesWhenExceeded ==
  \A r \in 1..nrec :
    /\ session[r].preInitSize = Len(Concat(session[r].preInitChunks))
    /\ Unresolved(session[r]) => session[r].preInitSize <= MAX_PREINIT_BYTES
    /\ proc[r].resolvedBy = "cap" =>
         /\ Len(Bytes(session[r].initBuffer)) > MAX_PREINIT_BYTES
         /\ Len(Bytes(session[r].initBuffer))
              - Len(proc[r].out[proc[r].resAt]) <= MAX_PREINIT_BYTES

\* C7 witness: a marker-free stream stood exactly at the ceiling and the
\* next chunk resolved it by size
C7_Witness ==
  \E r \in 1..nrec :
    /\ proc[r].resolvedBy = "cap"
    /\ ~HasMarker(Concat(proc[r].out))
    /\ Len(Bytes(session[r].initBuffer))
         - Len(proc[r].out[proc[r].resAt]) = MAX_PREINIT_BYTES

\* C8: when the size cap resolved the session at chunk k, initBuffer is all
\* of chunks 1..k, the crossing chunk included, and no queue holds a live
\* byte range numbered k or less.
C8_SizeCapInitIsAll ==
  \A r \in 1..nrec :
    proc[r].resolvedBy = "cap" =>
      /\ session[r].initBuffer = Some(OutPrefix(r, proc[r].resAt))
      /\ \A c \in 1..ncli :
           cl[c].sess = r =>
             \A i \in 1..Len(cl[c].q) :
               cl[c].q[i].kind = "live" => cl[c].q[i].n > proc[r].resAt

\* C8 witness: a marker-free stream resolved by size at chunk 2; a queue
\* attached before holds the init segment, then chunk 3
C8_Witness ==
  \E c \in 1..ncli :
    LET r == cl[c].sess
    IN /\ proc[r].resolvedBy = "cap"
       /\ proc[r].resAt = 2
       /\ ~HasMarker(OutPrefix(r, 2))
       /\ ~cl[c].late
       /\ Len(cl[c].q) = 2

\* C9 as claimed: once the timer has fired on a subprocess that has
\* produced no stdout bytes, initBuffer is set, to an empty buffer.
C9_Original ==
  \A r \in 1..nrec :
    (proc[r].timerFired /\ proc[r].stdoutChunkCount = 0) =>
      session[r].initBuffer = Some(<<>>)

\* C9 amended: when the timer fires on a subprocess that has produced no
\* stdout bytes, initBuffer stays unset and the timer handle is dropped; the
\* session is resolved later, by a marker or the size cap, if at all, and
\* initBuffer is never an empty buffer.
C9_EmptyTimeoutLeavesUnset ==
  \A r \in 1..nrec :
    /\ session[r].initBuffer # Some(<<>>)
    /\ (proc[r].timerFired /\ proc[r].firedAt = 0) =>
         /\ proc[r].resolvedBy \in {"none", "pattern", "cap"}
         /\ ~session[r].initTimer
         /\ proc[r].stdoutChunkCount = 0 => Unresolved(session[r])
         /\ Unresolved(session[r]) =>
              session[r].preInitChunks = proc[r].out

\* C9 witness: the timer fired before any chunk, and the chunks delivered
\* afterwards were buffered until a marker resolved the session
C9_Witness ==
  \E r \in 1..nrec :
    /\ proc[r].timerFired
    /\ proc[r].firedAt = 0
    /\ proc[r].resolvedBy = "pattern"

\* C10: when the timer resolved the session with k >= 1 chunks buffered,
\* initBuffer is chunks 1..k in arrival order; a queue attached before then
\* and still attached holds the init segment first and after it every later
\* chunk, k+1 up to the last one delivered.
C10_TimeoutPromotesBuffered ==
  \A r \in 1..nrec :
    proc[r].resolvedBy = "timeout" =>
      LET k == proc[r].resAt
      IN /\ k >= 1
         /\ session[r].initBuffer = Some(OutPrefix(r, k))
         /\ \A c \in 1..ncli :
              (cl[c].sess = r /\ ~cl[c].late /\ Attached(c)) =>
                cl[c].q =
                  <<InitWrite(OutPrefix(r, k))>> \o
                  [i \in 1..(proc[r].stdoutChunkCount - k) |->
                     LiveWrite(proc[r].out[k + i], k + i)]

\* C10 witness: the timer promoted two buffered chunks and an attached
\* queue holds them as init segment, followed by chunk 3
C10_Witness ==
  \E c \in 1..ncli :
    LET r == cl[c].sess
    IN /\ proc[r].resolvedBy = "timeout"
       /\ proc[r].resAt = 2
       /\ ~cl[c].late
       /\ Attached(c)
       /\ Len(cl[c].q) = 2

\* C11 as stated: once any of the three triggers has fired, the other two
\* do nothing more.  For the timeout trigger: after the timer callback
\* has run, no chunk is buffered and neither the pattern match nor the
\* size cap sets the init segment.
C11_Original ==
  \A r \in 1..nrec :
    proc[r].timerFired =>
      /\ session[r].preInitChunks = <<>>
      /\ proc[r].resolvedBy \notin {"pattern", "cap"}

\* C11: once a trigger has set a session's initBuffer, the triggers are
\* spent: in every later step the initBuffer, the branch that set it and
\* the chunk count at which it did stay as they are, the timer is not
\* pending, nothing is buffered, and the only write a queue of the session
\* receives is a stdout chunk, appended as a live byte range to every
\* attached queue (no queue receives another init segment).
C11_ResolvedTriggersSpent ==
  [][\A r \in 1..nrec :
       session[r].initBuffer # Null =>
         /\ session'[r].initBuffer = session[r].initBuffer
         /\ proc'[r].resolvedBy = proc[r].resolvedBy
         /\ proc'[r].resAt = proc[r].resAt
         /\ ~proc'[r].timerArmed
         /\ session'[r].preInitChunks = <<>>
         /\ session'[r].preInitSize = 0
         /\ \A c \in 1..ncli :
              cl[c].sess = r =>
                IF cl'[c].q = cl[c].q
                THEN ~( /\ proc'[r].stdoutChunkCount # proc[r].stdoutChunkCount
                        /\ Attached(c) )
                ELSE /\ proc'[r].stdoutChunkCount # proc[r].stdoutChunkCount
                     /\ Attached(c)
                     /\ cl'[c].q =
                          Append(cl[c].q,
                                 LiveWrite(proc'[r].out[Len(proc'[r].out)],
                                           proc'[r].stdoutChunkCount))]_vars

\* C11 witness: the timer set the init segment, and an attached queue then
\* received two live chunks which together hold a marker
C11_Witness ==
  \E c \in 1..ncli :
    /\ Attached(c)
    /\ proc[cl[c].sess].resolvedBy = "timeout"
    /\ Len(Lives(cl[c].q)) >= 2
    /\ HasMarker(Concat([i \in 1..Len(Lives(cl[c].q)) |->
                           Lives(cl[c].q)[i].data]))

\* C12: when a subprocess closes and stopStream was never called on its
\* session, that step leaves the session inactive, ends every queue that was
\* in its client set (none of them stays open), empties the set and removes
\* the session's identifier from the registry; and a session whose
\* subprocess has closed stays inactive, without clients and unlisted.
C12_CloseTearsDown ==
  /\ [](\A r \in 1..nrec :
          proc[r].st = "closed" =>
            /\ ~session[r].isActive
            /\ session[r].clients = {}
            /\ \A sid \in SIDs : sessions[sid] # r)
  /\ [][\A r \in 1..nrec :
          ( /\ proc[r].st # "closed"
            /\ proc'[r].st = "closed"
            /\ ~proc[r].killed ) =>
            /\ ~session'[r].isActive
            /\ session'[r].clients = {}
            /\ \A c \in session[r].clients :
                 /\ cl'[c].st # "open"
                 /\ cl[c].st = "open" =>
                      /\ cl'[c].st = "ended"
                      /\ cl'[c].pend = <<"finish", "end", "close">>
            /\ sessions'[session[r].id] = 0
            /\ \A sid \in SIDs : sessions'[sid] # r]_vars

\* C12 witness: a subprocess that was never killed has closed, and a queue
\* of its session, open until then, was ended by it
C12_Witness ==
  \E c \in 1..ncli :
    /\ cl[c].st = "ended"
    /\ proc[cl[c].sess].st = "closed"
    /\ ~proc[cl[c].sess].killed

\* C13 as stated: every step that removes an identifier from the registry
\* (a stopStream or a 'close' handler) leaves no queue open that belongs to
\* the session which was stored under that identifier: the entry goes only
\* once the session's queues are ended.
C13_Original ==
  [][\A sid \in SIDs :
       (sessions[sid] # 0 /\ sessions'[sid] = 0) =>
         \A c \in 1..ncli :
           cl[c].sess = sessions[sid] => cl'[c].st # "open"]_vars

\* C14: a stopStream(sid) call can always be made; on a tracked session it
\* leaves, in that one step, the session inactive, its subprocess killed,
\* every queue of its client set ended (none open), the set empty and sid
\* out of the registry; on an identifier the registry no longer holds (a
\* second call, before or after the subprocess's 'close') it changes
\* nothing, so the stopped session stays unlisted (getSessionStatus and
\* getAllSessions do not report it) and without clients.
C14_StopIdempotent ==
  /\ [](\A sid \in SIDs : ENABLED (StopStream(sid) \/ StopStreamUnknown(sid)))
  /\ [](\A r \in 1..nrec :
          proc[r].killed =>
            /\ session[r].clients = {}
            /\ \A sid \in SIDs : sessions[sid] # r)
  /\ [][\A sid \in SIDs :
          last' = Called("stopStream", sid, "void") =>
            /\ sessions'[sid] = 0
            /\ IF sessions[sid] # 0
               THEN /\ ~session'[sessions[sid]].isActive
                    /\ proc'[sessions[sid]].killed
                    /\ session'[sessions[sid]].clients = {}
                    /\ \A c \in session[sessions[sid]].clients :
                         /\ cl'[c].st # "open"
                         /\ cl[c].st = "open" => cl'[c].st = "ended"
               ELSE UNCHANGED vars]_allvars

\* C14 witness: stopStream was just called on an identifier whose session
\* had been stopped before and whose subprocess has closed since, a queue of
\* that session having been ended
C14_Witness ==
  \E c \in 1..ncli :
    /\ cl[c].st = "ended"
    /\ last = Called("stopStream", session[cl[c].sess].id, "void")
    /\ \A r \in 1..nrec :
         session[r].id = session[cl[c].sess].id =>
           proc[r].killed /\ proc[r].st = "closed"

\* C16: a startStream(sid) call made while the registry holds an active
\* session under sid resolves at once and changes nothing: no session
\* record and no subprocess is created, and the registry, every session
\* record (active flag, client set, count, buffers, initBuffer), every
\* subprocess and every queue stay as they are.
C16_StartOnActiveIsNoOp ==
  [][\A sid \in SIDs :
       ( /\ TrackedActive(sid)
         /\ last'.op = "startStream"
         /\ last'.sid = sid ) =>
         /\ last'.ret = "resolved"
         /\ UNCHANGED vars]_allvars

\* C16 witness: startStream was just called, and resolved, on the
\* identifier of an active session that has an attached queue holding the
\* init segment
C16_Witness ==
  \E c \in 1..ncli :
    /\ Attached(c)
    /\ cl[c].q # <<>>
    /\ TrackedActive(session[cl[c].sess].id)
    /\ sessions[session[cl[c].sess].id] = cl[c].sess
    /\ last = Called("startStream", session[cl[c].sess].id, "resolved")

\* C18: in every reachable state, every session the registry holds has a
\* clientCount (the number getSessionStatus and getAllSessions report)
\* equal to the number of queues in its clients set.
C18_CountMatchesClients ==
  \A sid \in SIDs :
    sessions[sid] # 0 =>
      session[sessions[sid]].clientCount =
        Cardinality(session[sessions[sid]].clients)

\* C18 witness: a session still held by the registry had two queues
\* attached; the consumer destroyed one, whose cleanup has run, and the
\* other is still attached
C18_Witness ==
  \E c, d \in 1..ncli :
    /\ cl[c].sess = cl[d].sess
    /\ sessions[session[cl[c].sess].id] = cl[c].sess
    /\ cl[c].st = "destroyed"
    /\ cl[c].pend = <<>>
    /\ Attached(d)

\* C19 as stated: a run of a queue's cleanup that is not its first (for a
\* queue that was ended, the run on 'end' after the one on 'finish', and the
\* run on 'close' after those) leaves the clients set and the clientCount
\* of the queue's session unchanged.
C19_Original ==
  [][\A c \in 1..ncli :
       ( /\ cl[c].st = "ended"
         /\ Len(cl[c].pend) \in {1, 2}
         /\ cl'[c].pend = Tail(cl[c].pend) ) =>
         /\ session'[cl[c].sess].clients = session[cl[c].sess].clients
         /\ session'[cl[c].sess].clientCount =
              session[cl[c].sess].clientCount]_vars

\* C15 as stated: a stop request for an identifier that the registry does
\* not hold changes neither the registry, nor any session record, nor any
\* subprocess, nor any queue in the client set of a session the registry
\* holds.
C15_Original ==
  [][\A x \in StopParams :
       ( /\ last' = Called("POST stop", x, "success")
         /\ (x \in SIDs => sessions[x] = 0) ) =>
         /\ sessions' = sessions
         /\ session' = session
         /\ proc' = proc
         /\ \A sid \in SIDs : \A c \in 1..ncli :
              ( /\ sessions[sid] # 0
                /\ c \in session[sessions[sid]].clients ) =>
                cl'[c] = cl[c]]_allvars

\* C17: whenever the registry holds no session under an identifier, or
\* holds one that is not active (still starting, failed, or hit by an
\* error), a getStreamData call on it returns null and a stream:watch
\* request for it is answered with stream:error, and either leaves the
\* registry, every session record (client set, clientCount), every
\* subprocess, every queue and activeStreams unchanged.
C17_AttachRefusedWhenNotActive ==
  [][\A sid \in SIDs :
       ~TrackedActive(sid) =>
         /\ (last'.op = "getStreamData" /\ last'.sid = sid) =>
              /\ last'.ret = "null"
              /\ UNCHANGED vars
         /\ (last'.op = "stream:watch" /\ last'.sid = sid) =>
              /\ last'.ret = "stream:error"
              /\ UNCHANGED <<vars, activeStreams>>]_allvars

\* C17 witness: a stream:watch request was just answered with stream:error
\* for a session that the registry holds and that is not active
C17_Witness ==
  \E sid \in SIDs :
    /\ sessions[sid] # 0
    /\ ~TrackedActive(sid)
    /\ last = Called("stream:watch", sid, "stream:error")

\* C20 as stated: the session identifiers sent back to the start requests
\* answered so far are pairwise distinct.
C20_Original ==
  \A i, j \in 1..Len(handed) : i # j => handed[i] # handed[j]

\* C27: in every reachable state, a session whose initBuffer is set holds
\* nothing in its pre-init buffer: preInitChunks is empty and preInitSize
\* is 0, whichever trigger set the initBuffer and whatever chunks, timer
\* firing, stop or close came afterwards.
C27_BufferFreedOnceResolved ==
  \A r \in 1..nrec :
    ~Unresolved(session[r]) =>
      /\ session[r].preInitChunks = <<>>
      /\ session[r].preInitSize = 0

\* C27 witness: two chunks had been buffered when the third resolved the
\* session, and the subprocess has closed since
C27_Witness ==
  \E r \in 1..nrec :
    /\ ~Unresolved(session[r])
    /\ proc[r].resAt = 3
    /\ proc[r].st = "closed"
    /\ session[r].preInitChunks = <<>>

\* C28: the step in which the size cap or the timer sets a session's
\* initBuffer logs, in that same step, the warning of that trigger (and no
\* other), and the step in which a marker sets it logs no warning; so a
\* session resolved by size cap or timeout has its warning in the log, and
\* one resolved by marker has neither of the two.
C28_DegradedResolutionWarns ==
  /\ [](\A r \in 1..nrec :
          /\ WarnSizeCap \in proc[r].warned <=> proc[r].resolvedBy = "cap"
          /\ WarnTimeout \in proc[r].warned <=> proc[r].resolvedBy = "timeout")
  /\ [][\A r \in 1..nrec :
          (Unresolved(session[r]) /\ ~Unresolved(session'[r])) =>
            proc'[r].warned \ proc[r].warned =
              IF proc'[r].resolvedBy = "cap" THEN {WarnSizeCap}
              ELSE IF proc'[r].resolvedBy = "timeout" THEN {WarnTimeout}
              ELSE {}]_vars

\* C28 witness: the timer ran with nothing buffered (and logged that), then
\* a marker-free stream was resolved by the size cap, which logged its
\* warning
C28_Witness ==
  \E r \in 1..nrec :
    /\ proc[r].resolvedBy = "cap"
    /\ proc[r].warned = {WarnNoData, WarnSizeCap}
    /\ ~HasMarker(Concat(proc[r].out))

\* C29 as stated: in the processing of a chunk by a session that has no
\* initBuffer yet, the session is resolved by pattern match exactly when
\* the concatenation of the chunks received so far, that chunk included,
\* contains ftyp, moov or moof.
C29_Original ==
  [][\A r \in 1..nrec :
       ( /\ Unresolved(session[r])
         /\ proc'[r].stdoutChunkCount = proc[r].stdoutChunkCount + 1 ) =>
         ( proc'[r].resolvedBy = "pattern" <=>
             HasMarker(Concat(proc'[r].out)) )]_vars

\* C29: while a session is unresolved its buffer holds every chunk received
\* so far, and the scan runs over their concatenation: in the processing of
\* a chunk by an unresolved session, the session is resolved by pattern
\* match exactly when the chunks received so far, that chunk included,
\* contain ftyp, moov or moof (in one chunk or across several) and do not
\* exceed the ceiling in total; when they exceed it the size cap resolves
\* the session, marker or not.  A session already resolved is not scanned.
C29_ScanOverAllBuffered ==
  /\ [](\A r \in 1..nrec :
          Unresolved(session[r]) =>
            /\ session[r].preInitChunks = proc[r].out
            /\ ~HasMarker(Concat(proc[r].out)))
  /\ [][\A r \in 1..nrec :
          proc'[r].stdoutChunkCount = proc[r].stdoutChunkCount + 1 =>
            IF Unresolved(session[r])
            THEN /\ proc'[r].resolvedBy = "pattern" <=>
                      /\ HasMarker(Concat(proc'[r].out))
                      /\ Len(Concat(proc'[r].out)) <= MAX_PREINIT_BYTES
                 /\ proc'[r].resolvedBy = "cap" <=>
                      Len(Concat(proc'[r].out)) > MAX_PREINIT_BYTES
            ELSE proc'[r].resolvedBy = proc[r].resolvedBy]_vars

\* C29 witness: no chunk holds a marker by itself, the marker lies across
\* the first two chunks, and the second chunk resolved the session by
\* pattern match
C29_Witness ==
  \E r \in 1..nrec :
    /\ proc[r].resolvedBy = "pattern"
    /\ proc[r].resAt = 2
    /\ \A i \in 1..Len(proc[r].out) : ~HasMarker(proc[r].out[i])
    /\ HasMarker(proc[r].out[1] \o proc[r].out[2])

\* C30: when a chunk received by an unresolved session both takes the
\* buffered total above the ceiling and completes a marker, that step
\* commits one resolution, by the size cap: initBuffer becomes the
\* concatenation of all chunks received so far, and every queue in the
\* client set that is not destroyed holds it as its single write.  From
\* then on the resolution stays the size cap's and no queue of the session
\* holds an init segment twice.
C30_CapAndMarkerResolveOnce ==
  /\ [](\A r \in 1..nrec :
          ( /\ proc[r].resolvedBy \in {"cap", "pattern"}
            /\ HasMarker(OutPrefix(r, proc[r].resAt))
            /\ Len(OutPrefix(r, proc[r].resAt)) > MAX_PREINIT_BYTES ) =>
            /\ proc[r].resolvedBy = "cap"
            /\ session[r].initBuffer = Some(OutPrefix(r, proc[r].resAt))
            /\ \A c \in 1..ncli :
                 cl[c].sess = r =>
                   /\ Inits(cl[c].q) <= 1
                   /\ (Attached(c) /\ ~cl[c].late) => Inits(cl[c].q) = 1)
  /\ [][\A r \in 1..nrec :
          ( /\ Unresolved(session[r])
            /\ proc'[r].stdoutChunkCount = proc[r].stdoutChunkCount + 1
            /\ HasMarker(Concat(proc'[r].out))
            /\ Len(Concat(proc'[r].out)) > MAX_PREINIT_BYTES ) =>
            /\ proc'[r].resolvedBy = "cap"
            /\ session'[r].initBuffer = Some(Concat(proc'[r].out))
            /\ \A c \in session[r].clients :
                 cl[c].st # "destroyed" =>
                   cl'[c].q = <<InitWrite(Concat(proc'[r].out))>>]_vars

\* C30 witness: the third chunk took the total above the ceiling and
\* completed a marker that the first two chunks did not hold; a queue
\* attached before it, and still attached, holds the init segment
C30_Witness ==
  \E c \in 1..ncli :
    LET r == cl[c].sess
    IN /\ proc[r].resolvedBy = "cap"
       /\ HasMarker(OutPrefix(r, proc[r].resAt))
       /\ ~HasMarker(OutPrefix(r, proc[r].resAt - 1))
       /\ Attached(c)
       /\ ~cl[c].late
       /\ cl[c].q = <<InitWrite(Concat(proc[r].out))>>

\* C21: a startStream call whose spawn() throws is rejected and creates no
\* session record; a subprocess that emits 'error' before 'spawn' rejects
\* the promise of its startStream call in that step, and from then on its
\* session is never active, has no client in its set and no queue was ever
\* attached to it.
C21_SpawnFailureNeverActive ==
  /\ [](\A r \in 1..nrec :
          proc[r].promise = "rejected" =>
            /\ ~session[r].isActive
            /\ session[r].clients = {}
            /\ session[r].clientCount = 0
            /\ \A c \in 1..ncli : cl[c].sess # r)
  /\ [][/\ \A r \in 1..nrec :
             (proc[r].st = "spawning" /\ proc'[r].st = "failed") =>
               proc'[r].promise = "rejected"
        /\ \A sid \in SIDs :
             last' = Called("startStream", sid, "rejected") =>
               UNCHANGED vars]_allvars

\* C21 witness: a subprocess failed before 'spawn', its session is still in
\* the registry, and a getStreamData call on it was just answered null
C21_Witness ==
  \E r \in 1..nrec :
    /\ proc[r].st = "failed"
    /\ proc[r].promise = "rejected"
    /\ sessions[session[r].id] = r
    /\ last = Called("getStreamData", session[r].id, "null")

\* C22 as stated: a step in which the subprocess of one session closes
\* leaves every other session as it was: the registry entry of every other
\* session record stays, and so do its active flag, client set, buffers and
\* initBuffer.
C22_Original ==
  [][\A r \in 1..nrec :
       (proc[r].st # "closed" /\ proc'[r].st = "closed") =>
         /\ \A sid \in SIDs :
              sessions[sid] \notin {0, r} => sessions'[sid] = sessions[sid]
         /\ \A o \in 1..nrec : o # r => session'[o] = session[o]]_vars

\* socket k holds an open queue, attached to the session stored under sid
HoldsOpen(k, sid) ==
  \E c \in 1..ncli :
    /\ streamKey[c] = Key(sid, k)
    /\ Attached(c)
    /\ sessions[sid] = cl[c].sess

\* C23: a stream:watch for sid from a socket that holds an open queue
\* attached to the session stored under sid is answered with stream:error
\* and changes nothing: no queue is created or registered, the session's
\* client set and clientCount, the queues, activeStreams, the listeners,
\* the pending idle checks and what was sent for the existing queue stay
\* as they are, so the existing queue goes on receiving.
C23_DuplicateWatchRejected ==
  [][\A k \in Socks : \A sid \in SIDs :
       ( /\ HoldsOpen(k, sid)
         /\ last'.op = "stream:watch"
         /\ last'.sid = sid
         /\ last'.by = k ) =>
         /\ last'.ret = "stream:error"
         /\ UNCHANGED <<vars, activeStreams, streamKey, emitted,
                        listeners, idle>>]_allvars

\* C23 witness: a socket whose queue has passed the init segment on was
\* just refused a second watch of the same session, while the other socket
\* watches that session too
C23_Witness ==
  \E k \in Socks : \E sid \in SIDs :
    /\ HoldsOpen(k, sid)
    /\ last = Asked(k, sid, "stream:error")
    /\ \E c \in 1..ncli :
         /\ streamKey[c] = Key(sid, k)
         /\ Relayed(c) >= 1
    /\ \E o \in Socks \ {k} : HoldsOpen(o, sid)

\* how many of the events sent for queue c carried the init segment: the
\* stream:init events, and the stream:data events of an init write
InitsSent(c) ==
  Cardinality({i \in 1..Len(emitted[c]) :
                 \/ emitted[c][i].ev = "stream:init"
                 \/ /\ emitted[c][i].ev = "stream:data"
                    /\ emitted[c][i].w.kind = "init"})

\* C25 as stated: for each accepted watch, the init segment is sent to the
\* socket at most once, counting the stream:init event and the stream:data
\* events fed from the queue.
C25_Original ==
  \A c \in 1..ncli : InitsSent(c) <= 1

\* queue c was ended by the 'close' handler of its session's subprocess
\* (the session was never stopped)
EndedByExit(c) ==
  /\ cl[c].st = "ended"
  /\ proc[cl[c].sess].st = "closed"
  /\ ~proc[cl[c].sess].killed

\* the socket of queue c was sent stream:end and activeStreams no longer
\* holds the queue
EndSent(c) ==
  /\ \E i \in 1..Len(emitted[c]) : emitted[c][i].ev = "stream:end"
  /\ \A e \in activeStreams : e[2] # c

\* C26: every queue that the exit of its session's subprocess ended (the
\* queues of the sockets watching the session at that moment) has
\* stream:end sent to its socket and its activeStreams entry removed:
\* eventually, and in fact by the time the queue's events have run, before
\* any other handler; stream:end is sent at most once per queue.
C26_ExitSendsStreamEnd ==
  /\ \A c \in Clients : EndedByExit(c) ~> EndSent(c)
  /\ [](\A c \in 1..ncli :
          /\ (EndedByExit(c) /\ ~Pending(c)) => EndSent(c)
          /\ Cardinality({i \in 1..Len(emitted[c]) :
                            emitted[c][i].ev = "stream:end"}) <= 1)

\* C26 witness: two sockets were watching when the subprocess exited; both
\* were sent stream:end, one of them after the init segment, and
\* activeStreams is empty
C26_Witness ==
  /\ ncli = 2
  /\ \A c \in 1..ncli : EndedByExit(c) /\ EndSent(c)
  /\ streamKey[1] # streamKey[2]
  /\ \E c \in 1..ncli : Relayed(c) >= 1
  /\ activeStreams = {}

\* C24 as stated: once the queues have run dry and no idle check is
\* pending, no session that a client left by stream:unwatch or by
\* disconnecting is still active without a client in its set: the idle
\* check that followed the last detach has stopped it.
C24_Original ==
  (Quiet /\ idle = <<>>) =>
    \A c \in detached :
      ~( /\ session[cl[c].sess].isActive
         /\ session[cl[c].sess].clients = {} )

\* the subprocesses associated with sid that have not closed: spawned (the
\* 'spawn' event delivered or not) and their 'close' event not yet run
Unclosed(sid) ==
  { r \in 1..nrec : session[r].id = sid /\ proc[r].st \in {"spawning", "running"} }

\* C31 as stated: for every session identifier at most one subprocess that
\* has not yet closed is associated with it at any time (so a startStream
\* call for an identifier whose session is still starting, or is tracked
\* but inactive, has built no second subprocess and no second record).
C31_Original ==
  \A sid \in SIDs : Cardinality(Unclosed(sid)) <= 1

\* C32: no write reaches a queue that has been ended (by stopStream or by
\* the 'close' handler) or destroyed (by its consumer, whether or not the
\* cleanup has taken it out of the client set yet): whatever a step does,
\* stdout chunk and init timer included, the writes of such a queue stay
\* as they were.
C32_NoWriteAfterEnd ==
  [][\A c \in Clients :
       cl[c].st \in {"ended", "destroyed"} => cl'[c].q = cl[c].q]_vars

\* C32 witness: a queue attached once the init segment was known and ended
\* by stopStream holds the init segment and nothing else, although stdout
\* has delivered a chunk since the queue was attached: the chunk came after
\* the stop and was not written.
C32_Witness ==
  \E c \in 1..ncli :
    /\ cl[c].st = "ended"
    /\ cl[c].late
    /\ proc[cl[c].sess].killed
    /\ proc[cl[c].sess].st = "running"
    /\ proc[cl[c].sess].stdoutChunkCount > cl[c].at
    /\ Len(cl[c].q) = 1

\* C33 as stated: in every reachable state a session that the registry
\* holds and reports as not active has no queue in its client set (not
\* before 'spawn', and not after an 'error' event delivered once the
\* session has become active).
C33_Original ==
  \A sid \in SIDs :
    (sessions[sid] # 0 /\ ~session[sessions[sid]].isActive) =>
      session[sessions[sid]].clients = {}

\* the step is a run of the idle check that stops the session stored
\* under x
IdleStops(x) ==
  /\ idle # <<>>
  /\ idle' = Tail(idle)
  /\ Head(idle) = x
  /\ sessions[x] # 0
  /\ sessions'[x] = 0

\* C34: the idle check stops a session only when no client queue is
\* attached to it at the moment of the check: the client set of the session
\* it stops is empty and none of the session's queues is open.  A session
\* with a client attached, one that came between another client's detach
\* and the check included, is left running.
C34_IdleStopsOnlyWithoutClients ==
  [][\A x \in SIDs :
       IdleStops(x) =>
         /\ session[sessions[x]].clients = {}
         /\ \A c \in 1..ncli :
              cl[c].sess = sessions[x] => cl[c].st # "open"]_allvars

\* C34 witness: a socket left the session and watched it again before the
\* idle check of its detach ran; the check has run and the session is
\* still active with the new queue attached
C34_Witness ==
  /\ ncli = 2
  /\ detached = {1}
  /\ idle = <<>>
  /\ streamKey[1] = streamKey[2]
  /\ cl[2].st = "open"
  /\ session[cl[2].sess].isActive
  /\ 2 \in session[cl[2].sess].clients

\* the positions of event ev among the events sent for queue c
At(c, ev) == {i \in 1..Len(emitted[c]) : emitted[c][i].ev = ev}

\* the 'stream:unwatch' listener registered with the watch of queue c is
\* gone: the socket's stream:unwatch has been handled since
Unwatched(c) ==
  \A k \in Socks : \A i \in 1..Len(listeners[k]) : listeners[k][i] # c

\* C35: the events sent for an accepted stream:watch come in the order
\* stream:init (at most one, first), stream:ready (exactly one), then the
\* stream:data events, then at most one stream:end, after which nothing is
\* sent; and once the socket's stream:unwatch has been handled no further
\* stream:data is sent for that watch.
C35_EventOrder ==
  /\ [](\A c \in 1..ncli :
          /\ Cardinality(At(c, "stream:ready")) = 1
          /\ Cardinality(At(c, "stream:init")) <= 1
          /\ Cardinality(At(c, "stream:end")) <= 1
          /\ \A i \in At(c, "stream:init") : i = 1
          /\ \A i \in At(c, "stream:ready") :
               i = Cardinality(At(c, "stream:init")) + 1
          /\ \A i \in At(c, "stream:end") : i = Len(emitted[c])
          /\ \A i \in 1..Len(emitted[c]) :
               emitted[c][i].ev \in {"stream:init", "stream:ready",
                                     "stream:data", "stream:end"})
  /\ [][\A c \in 1..ncli :
          Unwatched(c) => emitted'[c] = emitted[c]]_allvars

\* C35 witness: the first socket watched before the init segment was known
\* and sent stream:unwatch before it came: it was sent stream:ready and
\* nothing else; the second was sent stream:ready, the init segment as
\* stream:data when the timer promoted it, and stream:end when the
\* subprocess closed
C35_Witness ==
  /\ ncli = 2
  /\ Unwatched(1)
  /\ 1 \in detached
  /\ ~cl[1].late
  /\ [i \in 1..Len(emitted[1]) |-> emitted[1][i].ev] = <<"stream:ready">>
  /\ [i \in 1..Len(emitted[2]) |-> emitted[2][i].ev]
       = <<"stream:ready", "stream:data", "stream:end">>

\* the segments the SourceBuffer has taken, in the order of the calls
RECURSIVE Taken(_)
Taken(calls) ==
  IF calls = <<>> THEN <<>>
  ELSE IF Head(calls).ok THEN <<Head(calls).seg>> \o Taken(Tail(calls))
       ELSE Taken(Tail(calls))

\* the stream:data segments of a sequence come in the order they arrived
DataInOrder(s) ==
  \A i, j \in 1..Len(s) :
    (i < j /\ s[i].kind = "data" /\ s[j].kind = "data") => s[i].n < s[j].n

\* the step runs the continuation of the handler of a segment of this kind
Converts(kind) ==
  /\ player.conv # <<>>
  /\ player'.conv = Tail(player.conv)
  /\ Head(player.conv).kind = kind

\* C36: the player never calls appendBuffer on a SourceBuffer that is
\* updating.  A segment that arrives during an update is queued, at the
\* tail if it is a stream:data segment and at the head if it is the init
\* segment, and no appendBuffer call is made for it then; a step makes at
\* most one call; and the stream:data segments are taken by the
\* SourceBuffer, and wait in the queue, in the order they arrived.
C36_NoAppendWhileUpdating ==
  /\ [](\A i \in 1..Len(player.appendCalls) :
          ~player.appendCalls[i].updating)
  /\ [](DataInOrder(Taken(player.appendCalls) \o player.pendingBuffers))
  /\ [][/\ Len(player'.appendCalls) <= Len(player.appendCalls) + 1
        /\ (player.updating /\ Converts("data")) =>
             /\ player'.pendingBuffers =
                  Append(player.pendingBuffers, Head(player.conv))
             /\ player'.appendCalls = player.appendCalls
        /\ (player.updating /\ Converts("init")) =>
             /\ player'.pendingBuffers =
                  <<Head(player.conv)>> \o player.pendingBuffers
             /\ player'.appendCalls = player.appendCalls]_allvars

\* C36 witness: the first stream:data segment was appended at once, the
\* second arrived during the update and was queued, the init segment
\* arrived after it and went to the head of the queue; two 'updateend'
\* events later the SourceBuffer has taken the three, the init segment
\* before the second segment, with the third segment waiting
C36_Witness ==
  /\ Taken(player.appendCalls) = <<DataSeg(1), InitSeg, DataSeg(2)>>
  /\ player.pendingBuffers = <<DataSeg(3)>>
  /\ player.updating
  /\ \A i \in 1..Len(player.appendCalls) : player.appendCalls[i].ok

====
